---- MODULE Spec2Model ----
(***************************************************************************)
(* Model of safelog_service.py, the launcher of the safelog service.       *)
(*                                                                         *)
(* The module body resolves the launcher's directory (line 10), changes    *)
(* the working directory to it (line 11), imports and calls ve.activate    *)
(* (lines 12-13), imports solidlibs' run (line 15), defines main(args)     *)
(* (lines 18-21) and, when loaded as the entry script, calls main()        *)
(* (lines 23-24).                                                          *)
(*                                                                         *)
(* os, ve and solidlibs.os.command are collaborators outside this          *)
(* repository: what they return or raise is drawn from small sets in       *)
(* Init.  The interpreter's own rules are modelled as Python defines       *)
(* them: an exception nobody catches ends the process with status 1, a     *)
(* script that runs off its end ends it with status 0, and a call that     *)
(* does not match the callee's parameters raises TypeError before the      *)
(* callee's body runs.                                                     *)
(*                                                                         *)
(* Two launches are modelled side by side.  They share the filesystem,     *)
(* the way the launcher is invoked and the collaborators' behaviour, and   *)
(* differ only in their command-line arguments.                            *)
(***************************************************************************)
EXTENDS Integers, Sequences, FiniteSets, TLC

(***************************************************************************)
(* Bounds of the model.                                                    *)
(***************************************************************************)
MaxPathLen == 3
MaxStatus == 2

Launches == {1, 2}

(***************************************************************************)
(* The filesystem the launcher is installed in.  A physical path is the    *)
(* sequence of its component names from the root, <<>> being "/".          *)
(***************************************************************************)
Root == << >>
LauncherDir == <<"opt", "safelog">>
LauncherFile == <<"opt", "safelog", "safelog_service.py">>
BinDir == <<"usr", "bin">>

Dirs == {Root, <<"opt">>, LauncherDir, <<"usr">>, BinDir}
Files == {LauncherFile}

\* /srv -> /opt/safelog is a symlinked directory,
\* /usr/bin/safelog-service -> /opt/safelog/safelog_service.py a symlink to
\* the script.
LinkPaths == {<<"srv">>, <<"usr", "bin", "safelog-service">>}
LinkTarget(p) == IF p = <<"srv">> THEN LauncherDir ELSE LauncherFile

Components ==
    {"opt", "safelog", "usr", "bin", "srv", "safelog_service.py",
     "safelog-service", ".", ".."}

Front(s) == IF s = << >> THEN << >> ELSE SubSeq(s, 1, Len(s) - 1)

(***************************************************************************)
(* What the operating system opens for the path `parts` looked up from     *)
(* the physical directory `cur`: symlinks are followed and ".." is the     *)
(* parent of the directory actually reached.  NoPath when the lookup       *)
(* fails.                                                                  *)
(***************************************************************************)
NoPath == <<"ENOENT">>

RECURSIVE OSResolve(_, _)
OSResolve(cur, parts) ==
    IF parts = << >> THEN cur
    ELSE IF cur \notin Dirs THEN NoPath
    ELSE LET n == Head(parts)
             cand == Append(cur, n)
             nxt == IF n = "." THEN cur
                    ELSE IF n = ".." THEN Front(cur)
                    ELSE IF cand \in LinkPaths THEN LinkTarget(cand)
                    ELSE IF cand \in Dirs \cup Files THEN cand
                    ELSE NoPath
         IN  IF nxt = NoPath THEN NoPath ELSE OSResolve(nxt, Tail(parts))

(***************************************************************************)
(* os.path as the launcher uses it.  A path string is modelled as          *)
(* [abs, parts]: whether it starts with "/" and its components.            *)
(***************************************************************************)
dirname(p) == [abs |-> p.abs, parts |-> Front(p.parts)]

RECURSIVE normpath(_, _)
normpath(done, parts) ==
    IF parts = << >> THEN done
    ELSE LET n == Head(parts)
         IN  normpath(IF n = "." THEN done
                      ELSE IF n = ".." THEN Front(done)
                      ELSE Append(done, n),
                      Tail(parts))

abspath(p, cwd0) == normpath(<< >>, IF p.abs THEN p.parts ELSE cwd0 \o p.parts)

RECURSIVE joinrealpath(_, _)
joinrealpath(cur, parts) ==
    IF parts = << >> THEN cur
    ELSE LET n == Head(parts)
             cand == Append(cur, n)
         IN  joinrealpath(IF n = "." THEN cur
                          ELSE IF n = ".." THEN Front(cur)
                          ELSE IF cand \in LinkPaths THEN LinkTarget(cand)
                          ELSE cand,
                          Tail(parts))

realpath(p) == joinrealpath(Root, p)

(***************************************************************************)
(* The ways the launcher can be started: the path given for the script     *)
(* (absolute or relative to the directory it is started from), kept when   *)
(* the operating system finds the launcher file behind it.                 *)
(***************************************************************************)
PathParts == UNION {[1..n -> Components] : n \in 1..MaxPathLen}

ScriptFile(inv) == [abs |-> inv.abs, parts |-> inv.parts]

Opened(inv) == OSResolve(IF inv.abs THEN Root ELSE inv.cwd0, inv.parts)

Invocations ==
    {inv \in [abs : BOOLEAN, parts : PathParts, cwd0 : Dirs] :
        /\ Opened(inv) = LauncherFile
        /\ inv.abs => inv.cwd0 = Root}

\* The directory that really contains the file the operating system opened.
RealContainingDir(inv) == Front(Opened(inv))

(***************************************************************************)
(* The collaborators' behaviour.                                           *)
(***************************************************************************)
Removable == {LauncherDir, BinDir}

VeOutcomes == {"ok", "ImportError", "SetupError"}

Statuses == 0..MaxStatus

\* solidlibs' run either returns a result carrying the command's exit
\* status or raises, the failure carrying a nonzero status; importing it
\* can fail as well.
RunnerOutcomes ==
    {[kind |-> "ImportError", status |-> 1]}
    \cup {[kind |-> "returns", status |-> s] : s \in Statuses}
    \cup {[kind |-> "raises", status |-> s] : s \in Statuses \ {0}}

EntryModes == {"script", "import", "import_then_main"}

ArgvSet == {<< >>, <<"--debug">>}

NoStatus == -1

VARIABLES
    invocation,     \* how the launcher file is named (__file__) and from where
    entry,          \* run as the entry script, or imported by a host program
    unavailable,    \* directories missing or inaccessible when the body runs
    veOutcome,      \* what importing ve and calling activate() does
    runnerOutcome,  \* what importing and calling run does
    argv,           \* each launch's command-line arguments
    pc,             \* each launch's position in the program
    CURRENT_DIR,    \* the module global of line 10
    cwd,            \* each process's working directory
    activated,      \* whether ve.activate() has completed
    calls,          \* the collaborator calls made, in order
    mainCalled,     \* whether main's body has been entered
    args,           \* main's parameter, once bound
    err,            \* the uncaught exception, "" if none
    exitCode        \* the process's exit status, NoStatus while running

env == <<invocation, entry, unavailable, veOutcome, runnerOutcome, argv>>
vars == <<invocation, entry, unavailable, veOutcome, runnerOutcome, argv,
          pc, CURRENT_DIR, cwd, activated, calls, mainCalled, args, err,
          exitCode>>

Init ==
    /\ invocation \in Invocations
    /\ entry \in EntryModes
    /\ unavailable \in SUBSET Removable
    /\ veOutcome \in VeOutcomes
    /\ runnerOutcome \in RunnerOutcomes
    /\ argv \in [Launches -> ArgvSet]
    /\ pc = [l \in Launches |-> "resolve"]
    /\ CURRENT_DIR = [l \in Launches |-> NoPath]
    /\ cwd = [l \in Launches |-> invocation.cwd0]
    /\ activated = [l \in Launches |-> FALSE]
    /\ calls = [l \in Launches |-> << >>]
    /\ mainCalled = [l \in Launches |-> FALSE]
    /\ args = [l \in Launches |-> << >>]
    /\ err = [l \in Launches |-> ""]
    /\ exitCode = [l \in Launches |-> NoStatus]

\* The second launch is looked at once the first has ended; the two
\* processes share nothing they change.
Scheduled(l) == \A k \in Launches : k < l => pc[k] = "exit"

At(l, where) == Scheduled(l) /\ pc[l] = where

Call(op, arg, ok) == [op |-> op, arg |-> arg, ok |-> ok]

\* An exception nobody catches: traceback, exit status 1.
UncaughtStatus == 1

Raise(l, kind) ==
    /\ pc' = [pc EXCEPT ![l] = "exit"]
    /\ err' = [err EXCEPT ![l] = kind]
    /\ exitCode' = [exitCode EXCEPT ![l] = UncaughtStatus]

Goto(l, where) ==
    /\ pc' = [pc EXCEPT ![l] = where]
    /\ UNCHANGED <<err, exitCode>>

\* line 10: CURRENT_DIR = realpath(abspath(dirname(__file__)))
ResolvedDir(inv) == realpath(abspath(dirname(ScriptFile(inv)), inv.cwd0))

ResolveDir(l) ==
    /\ At(l, "resolve")
    /\ CURRENT_DIR' = [CURRENT_DIR EXCEPT ![l] = ResolvedDir(invocation)]
    /\ Goto(l, "chdir")
    /\ UNCHANGED <<env, cwd, activated, calls, mainCalled, args>>

\* Mutant: os.chdir succeeds whatever the directory.
ChdirAlwaysOk(d) == TRUE

\* line 11: os.chdir(CURRENT_DIR)
ChdirOk(d) == d \in Dirs \ unavailable

\* Mutant: a failure of os.chdir is swallowed and the body goes on.
ChangeDirIgnoringFailure(l) ==
    /\ At(l, "chdir")
    /\ calls' = [calls EXCEPT ![l] =
                    Append(@, Call("chdir", CURRENT_DIR[l], ChdirOk(CURRENT_DIR[l])))]
    /\ cwd' = [cwd EXCEPT ![l] =
                    IF ChdirOk(CURRENT_DIR[l]) THEN CURRENT_DIR[l] ELSE @]
    /\ Goto(l, "import_ve")
    /\ UNCHANGED <<env, CURRENT_DIR, activated, mainCalled, args>>

ChangeDir(l) ==
    /\ At(l, "chdir")
    /\ calls' = [calls EXCEPT ![l] =
                    Append(@, Call("chdir", CURRENT_DIR[l], ChdirOk(CURRENT_DIR[l])))]
    /\ IF ChdirOk(CURRENT_DIR[l])
       THEN /\ cwd' = [cwd EXCEPT ![l] = CURRENT_DIR[l]]
            /\ Goto(l, "import_ve")
       ELSE /\ Raise(l, "OSError")
            /\ UNCHANGED cwd
    /\ UNCHANGED <<env, CURRENT_DIR, activated, mainCalled, args>>

\* line 12: from ve import activate
ImportVe(l) ==
    /\ At(l, "import_ve")
    /\ IF veOutcome = "ImportError"
       THEN Raise(l, "ImportError")
       ELSE Goto(l, "activate")
    /\ UNCHANGED <<env, CURRENT_DIR, cwd, activated, calls, mainCalled, args>>

\* Mutant: a failure of activate() is swallowed and the body goes on.
ActivateIgnoringFailure(l) ==
    /\ At(l, "activate")
    /\ calls' = [calls EXCEPT ![l] =
                    Append(@, Call("activate", << >>, veOutcome = "ok"))]
    /\ activated' = [activated EXCEPT ![l] = veOutcome = "ok"]
    /\ Goto(l, "import_run")
    /\ UNCHANGED <<env, CURRENT_DIR, cwd, mainCalled, args>>

\* Mutant: the module body does not activate the environment.
ActivateDeferred(l) ==
    /\ At(l, "activate")
    /\ Goto(l, "import_run")
    /\ UNCHANGED <<env, CURRENT_DIR, cwd, activated, calls, mainCalled, args>>

\* line 13: activate()
Activate(l) ==
    /\ At(l, "activate")
    /\ calls' = [calls EXCEPT ![l] =
                    Append(@, Call("activate", << >>, veOutcome = "ok"))]
    /\ IF veOutcome = "ok"
       THEN /\ activated' = [activated EXCEPT ![l] = TRUE]
            /\ Goto(l, "import_run")
       ELSE /\ Raise(l, "SetupError")
            /\ UNCHANGED activated
    /\ UNCHANGED <<env, CURRENT_DIR, cwd, mainCalled, args>>

\* line 15: from solidlibs.os.command import run
ImportRun(l) ==
    /\ At(l, "import_run")
    /\ IF runnerOutcome.kind = "ImportError"
       THEN Raise(l, "ImportError")
       ELSE Goto(l, "name_check")
    /\ UNCHANGED <<env, CURRENT_DIR, cwd, activated, calls, mainCalled, args>>

\* line 18: def main(args) takes exactly one positional argument.
MainParams == <<"args">>

\* Binding a call's actual arguments to main's parameters.
BindsMain(actuals) == Len(actuals) = Len(MainParams)

\* line 24: main() as the entry script passes nothing.
ScriptActuals == << >>

EnterMain(l, actuals) ==
    /\ IF BindsMain(actuals)
       THEN /\ mainCalled' = [mainCalled EXCEPT ![l] = TRUE]
            /\ args' = [args EXCEPT ![l] = actuals[1]]
            /\ Goto(l, "main")
       ELSE /\ Raise(l, "TypeError")
            /\ UNCHANGED <<mainCalled, args>>
    /\ UNCHANGED <<env, CURRENT_DIR, cwd, activated, calls>>

\* line 23: if __name__ == "__main__"
IsMainModule == entry = "script"

NameCheck(l) ==
    /\ At(l, "name_check")
    /\ IF IsMainModule
       THEN EnterMain(l, ScriptActuals)
       ELSE /\ Goto(l, "loaded")
            /\ UNCHANGED <<env, CURRENT_DIR, cwd, activated, calls, mainCalled, args>>

\* A host program that imported the module calls main with the
\* command-line arguments it was given.
HostCallsMain(l) ==
    /\ At(l, "loaded")
    /\ entry = "import_then_main"
    /\ EnterMain(l, <<argv[l]>>)

\* A host program that imported the module and does not call main.
HostEnds(l) ==
    /\ At(l, "loaded")
    /\ entry = "import"
    /\ Goto(l, "returned")
    /\ UNCHANGED <<env, CURRENT_DIR, cwd, activated, calls, mainCalled, args>>

\* Mutant: main forwards its arguments to the command.
RunArgsForwarding(a) == <<"safelog">> \o a

\* line 21: run('safelog'); main's parameter is not used.
RunArgs(a) == <<"safelog">>

\* Mutant: a failed run is tried once more.
RunSafelogRetrying(l) ==
    /\ At(l, "main")
    /\ calls' = [calls EXCEPT ![l] =
                    Append(@, Call("run", RunArgs(args[l]), runnerOutcome.kind = "returns"))]
    /\ IF runnerOutcome.kind = "returns"
       THEN Goto(l, "returned")
       ELSE IF Len(calls[l]) < 3
            THEN Goto(l, "main")
            ELSE Raise(l, "ExecutionError")
    /\ UNCHANGED <<env, CURRENT_DIR, cwd, activated, mainCalled, args>>

RunSafelog(l) ==
    /\ At(l, "main")
    /\ calls' = [calls EXCEPT ![l] =
                    Append(@, Call("run", RunArgs(args[l]), runnerOutcome.kind = "returns"))]
    /\ IF runnerOutcome.kind = "returns"
       THEN Goto(l, "returned")
       ELSE Raise(l, "ExecutionError")
    /\ UNCHANGED <<env, CURRENT_DIR, cwd, activated, mainCalled, args>>

\* main returns None, its caller runs off its end: exit status 0.
NormalStatus == 0

Finish(l) ==
    /\ At(l, "returned")
    /\ pc' = [pc EXCEPT ![l] = "exit"]
    /\ exitCode' = [exitCode EXCEPT ![l] = NormalStatus]
    /\ UNCHANGED <<env, CURRENT_DIR, cwd, activated, calls, mainCalled, args, err>>

Next ==
    \E l \in Launches :
        \/ ResolveDir(l)
        \/ ChangeDir(l)
        \/ ImportVe(l)
        \/ Activate(l)
        \/ ImportRun(l)
        \/ NameCheck(l)
        \/ HostCallsMain(l)
        \/ HostEnds(l)
        \/ RunSafelog(l)
        \/ Finish(l)

Spec == Init /\ [][Next]_vars

(***************************************************************************)
(* Vocabulary of the properties.                                           *)
(***************************************************************************)
Ended(l) == pc[l] = "exit"

CallsOf(l, op) == SelectSeq(calls[l], LAMBDA c : c.op = op)

Attempted(l, op) == CallsOf(l, op) # << >>

FailedCall(l, op) == \E i \in DOMAIN calls[l] : calls[l][i].op = op /\ ~calls[l][i].ok

\* The directory d cannot be entered: it is no directory, or it is gone or
\* inaccessible.
Missing(d) == d \notin Dirs \/ d \in unavailable

\* Nothing before main can fail: the directories are there, ve and run
\* import, activate() is a no-op that returns.
SetupSucceeds ==
    /\ unavailable = {}
    /\ veOutcome = "ok"
    /\ runnerOutcome.kind # "ImportError"

(***************************************************************************)
(* C1.  Happy path: run as a script, with an activator that does nothing   *)
(* and a runner that records its call and returns, the launch ends with    *)
(* exactly one runner call, for the command 'safelog' and nothing else.    *)
(***************************************************************************)
C1_HappyPathRunsSafelogOnce ==
    \A l \in Launches :
        (entry = "script" /\ SetupSucceeds /\ runnerOutcome.kind = "returns" /\ Ended(l))
            => CallsOf(l, "run") = <<Call("run", <<"safelog">>, TRUE)>>

(***************************************************************************)
(* C2.  In every launch the working directory has been set before          *)
(* activation starts, and activation has completed before the command is   *)
(* invoked: every activate call follows a chdir that succeeded, every run  *)
(* call follows an activate that succeeded.                                *)
(***************************************************************************)
C2_ChdirThenActivateThenRun ==
    \A l \in Launches : \A i \in DOMAIN calls[l] :
        /\ calls[l][i].op = "activate" =>
              \E j \in 1..(i - 1) : calls[l][j].op = "chdir" /\ calls[l][j].ok
        /\ calls[l][i].op = "run" =>
              \E j \in 1..(i - 1) : calls[l][j].op = "activate" /\ calls[l][j].ok

C2_Witness ==
    \E l \in Launches : calls[l] # << >> /\ calls[l][Len(calls[l])].op = "run"

(***************************************************************************)
(* C3.  The launcher's exit code mirrors the exit code of the safelog      *)
(* command: a launch that is meant to run the command and whose setup      *)
(* succeeds ends with the status the command ends with.                    *)
(***************************************************************************)
C3_ExitCodeMirrorsCommand ==
    \A l \in Launches :
        (entry # "import" /\ SetupSucceeds /\ Ended(l))
            => exitCode[l] = runnerOutcome.status

(***************************************************************************)
(* C4.  If environment activation fails, the runner is never invoked: the  *)
(* launch ends with the activation error, main is not entered and no run   *)
(* call is made.                                                           *)
(***************************************************************************)
C4_NoRunAfterFailedActivation ==
    \A l \in Launches :
        FailedCall(l, "activate")
            => /\ ~Attempted(l, "run")
               /\ ~mainCalled[l]
               /\ Ended(l)
               /\ err[l] = "SetupError"

C4_Witness ==
    \E l \in Launches :
        FailedCall(l, "activate") /\ Ended(l) /\ entry = "import_then_main"

C6_ExitCodeIsRunnerFailureStatus ==
    \A l \in Launches :
        Ended(l) =>
            /\ FailedCall(l, "run") =>
                  exitCode[l] # 0 /\ exitCode[l] = runnerOutcome.status
            /\ (FailedCall(l, "chdir") \/ FailedCall(l, "activate")) =>
                  exitCode[l] # 0

(***************************************************************************)
(* C7.  However the launcher is invoked from a valid location (through a   *)
(* symlink to the script, through a symlinked directory, by a relative     *)
(* path), the working directory after the change-directory step is the     *)
(* directory that really contains the launcher file.                       *)
(***************************************************************************)
C7_CwdIsRealContainingDir ==
    \A l \in Launches :
        (Attempted(l, "chdir") /\ ~FailedCall(l, "chdir"))
            => cwd[l] = RealContainingDir(invocation)

(***************************************************************************)
(* C8.  Command-line arguments are ignored: two launches that differ only  *)
(* in their command-line arguments make the same collaborator calls and    *)
(* end the same way, and every runner call names 'safelog' and nothing     *)
(* else.                                                                   *)
(***************************************************************************)
C8_ArgumentsIgnored ==
    /\ (\A l \in Launches : Ended(l)) =>
          \A k, l \in Launches :
              /\ calls[k] = calls[l]
              /\ cwd[k] = cwd[l]
              /\ exitCode[k] = exitCode[l]
    /\ \A l \in Launches : \A i \in DOMAIN calls[l] :
          calls[l][i].op = "run" => calls[l][i].arg = <<"safelog">>

C8_Witness ==
    /\ \A l \in Launches : Ended(l) /\ Attempted(l, "run")
    /\ \E k, l \in Launches : argv[k] # argv[l] /\ args[k] # args[l]

(***************************************************************************)
(* C9.  No retries and no continuation after a failure: each of chdir,     *)
(* activate and run is attempted at most once in a launch, and a failed    *)
(* step is the last thing the launch does before it ends.                  *)
(***************************************************************************)
C9_NoRetryNoContinuation ==
    \A l \in Launches :
        /\ \A op \in {"chdir", "activate", "run"} : Len(CallsOf(l, op)) <= 1
        /\ \A i \in DOMAIN calls[l] :
              ~calls[l][i].ok => i = Len(calls[l]) /\ Ended(l) /\ exitCode[l] # 0
        /\ err[l] # "" => Ended(l)

C9_Witness ==
    \E l \in Launches : Ended(l) /\ FailedCall(l, "run") /\ Len(calls[l]) = 3

(***************************************************************************)
(* C10.  The working-directory change and the activation happen when the   *)
(* module is loaded, not in main: once a host program has imported the     *)
(* module, the working directory is the resolved directory and the         *)
(* environment is activated although main has not been entered, and the    *)
(* runner is invoked only if main is entered.                              *)
(***************************************************************************)
C10_SetupAtLoadRunOnlyInMain ==
    \A l \in Launches :
        /\ pc[l] = "loaded" =>
              /\ entry # "script"
              /\ cwd[l] = CURRENT_DIR[l]
              /\ activated[l]
              /\ Attempted(l, "chdir") /\ Attempted(l, "activate")
              /\ ~mainCalled[l]
              /\ ~Attempted(l, "run")
        /\ Attempted(l, "run") => mainCalled[l]
        /\ entry = "import" => ~mainCalled[l] /\ ~Attempted(l, "run")

C10_Witness ==
    \E l \in Launches :
        /\ entry = "import" /\ Ended(l) /\ err[l] = ""
        /\ activated[l] /\ cwd[l] # invocation.cwd0

====
